---- MODULE Spec2Model ----
(***************************************************************************)
(* Model of the pit-stop actor system of                                   *)
(* src/Concurrency/ActorModel/actor_model.py: a RaceEngineer (supervisor   *)
(* and coordinator) and one PitCrewMember per wheel Position, each an      *)
(* asyncio task with its own asyncio.Queue mailbox.                        *)
(*                                                                         *)
(* Every coroutine is cut at its await expressions: an action executes the *)
(* await a task is parked at and runs the task on to its next await.       *)
(***************************************************************************)
EXTENDS Naturals, Sequences, FiniteSets

(***************************************************************************)
(* class Position(Enum), in declaration order (the order in which the      *)
(* crew_members dict is built and iterated).                               *)
(***************************************************************************)
Position == <<"Front Left", "Front Right", "Rear Left", "Rear Right">>

(* class MessageType(Enum) *)
CHANGE_TIRE == "change_tire"
TIRE_CHANGED == "tire_changed"
STOP == "stop"
MessageType == {CHANGE_TIRE, TIRE_CHANGED, STOP}

(* Python's None, and the reference to RaceEngineer.mailbox carried in     *)
(* Message.sender_mailbox.                                                 *)
None == "None"

(* Python's True and False, as values a variable may hold beside None *)
PyTrue == "True"
PyFalse == "False"
EngineerMailbox == "engineer.mailbox"

(* @dataclass Message(msg_type, position, sender_mailbox = None) *)
Message(msg_type, position, sender_mailbox) ==
    [msg_type |-> msg_type, position |-> position, sender_mailbox |-> sender_mailbox]

(* The value of a crew member's local variable msg before its first get.   *)
NoMessage == Message(None, None, None)

(* a queue that puts at the head: the newest message is got first         *)
QueuePutFront(q, m) == <<m>> \o q

(* asyncio.Queue(): unbounded FIFO; put appends at the tail and never      *)
(* suspends, get suspends while the queue is empty and then takes the head.*)
QueuePut(q, m) == Append(q, m)
QueueCanGet(q) == Len(q) > 0
QueueHead(q) == Head(q)
QueueRest(q) == Tail(q)

VARIABLES
    crew,             \* the positions of crew_members (a prefix of Position)
    pc,               \* the await coordinate_pit_stop is parked at
    idx,              \* index of the crew member the current for loop is at
    pending_changes,  \* RaceEngineer.pending_changes
    mailbox,          \* RaceEngineer.mailbox
    member_mailbox,   \* PitCrewMember.mailbox, per position
    wpc,              \* the await each crew member's run() is parked at
    wmsg,             \* each crew member's local variable msg
    \* history variables: they record what has happened; the program's own
    \* actions never read them
    dispatched,       \* per position: CHANGE_TIRE messages put to its mailbox
    stops,            \* per position: STOP messages put to its mailbox
    signals,          \* per position: TIRE_CHANGED messages that member has put
    exits,            \* per position: times its run() loop has exited
    observed,         \* positions whose TIRE_CHANGED the engineer has removed
    received,         \* messages the engineer has taken from its mailbox
    emptied,          \* times pending_changes went from non-empty to empty
    shutdowns,        \* times coordinate_pit_stop entered its stop loop
    injected,         \* duplicate TIRE_CHANGED messages put by the environment
    sent,             \* per mailbox: the messages put to it, in order
    taken             \* per mailbox: the messages got from it, in order

(***************************************************************************)
(* src/Behavioral/Memento/memento.py: the module-level doc and manager.    *)
(* A str is a sequence of characters; a dict is an object of the heap      *)
(* dicts, known by its index, so that two names for one dict share every   *)
(* later change; its value is a function from keys to values.              *)
(***************************************************************************)
VARIABLES
    doc_content,          \* doc.content
    doc_formatting,       \* doc.formatting: the dict object it refers to
    doc_cursor_position,  \* doc.cursor_position
    dicts,                \* the dict objects made so far
    manager_history,      \* manager.history
    undo_result,          \* what the last manager.undo() returned
    doc_clock,            \* datetime.now(): calls made on doc and manager
    saved                 \* history variable: the document, by value, at each
                          \* save() not yet undone

mementoVars == <<doc_content, doc_formatting, doc_cursor_position, dicts,
                 manager_history, undo_result, doc_clock, saved>>

(* {} *)
EmptyDict == <<>>

(* Document.__init__ and DocumentManager.__init__ *)
MementoInit ==
    /\ doc_content = <<>>
    /\ dicts = <<EmptyDict>>
    /\ doc_formatting = 1
    /\ doc_cursor_position = 0
    /\ manager_history = <<>>
    /\ undo_result = None
    /\ doc_clock = 0
    /\ saved = <<>>

(***************************************************************************)
(* src/Behavioral/State/state.py: the module-level doc.                    *)
(***************************************************************************)
VARIABLES
    sdoc_content,        \* doc.content
    sdoc_state,          \* doc.state: the class of the state object
    sdoc_last_modified,  \* doc.last_modified
    sdoc_clock,          \* datetime.now(): calls made on doc
    sdoc_last_call       \* history variable: the method called last

stateVars == <<sdoc_content, sdoc_state, sdoc_last_modified, sdoc_clock,
               sdoc_last_call>>

(* doc = Document("Initial content") *)
StateInit ==
    /\ sdoc_content = "Initial content"
    /\ sdoc_state = "DraftState"
    /\ sdoc_last_modified = 0
    /\ sdoc_clock = 0
    /\ sdoc_last_call = None

(***************************************************************************)
(* src/Creational/Singleton/singleton.py.  ConfigurationManager objects    *)
(* live in the heap cm_objects and are known by their index; an object is  *)
(* its settings dict.                                                      *)
(***************************************************************************)
VARIABLES
    cm_instance,  \* ConfigurationManager._instance (NoInstance for None)
    cm_objects,   \* the ConfigurationManager objects made so far
    cm_refs,      \* what each ConfigurationManager() call returned, in order
    cm_updated    \* history variable: per key, the value of the latest
                  \* update_setting call

singletonVars == <<cm_instance, cm_objects, cm_refs, cm_updated>>

(* _instance = None *)
NoInstance == 0

SingletonInit ==
    /\ cm_instance = NoInstance
    /\ cm_objects = <<>>
    /\ cm_refs = <<>>
    /\ cm_updated = <<>>

(***************************************************************************)
(* src/Security/AuthenticationProxy/authentication_proxy.py: auth_service  *)
(* over real_service.                                                      *)
(***************************************************************************)
VARIABLES
    logged_in_user,  \* auth_service._logged_in_user
    auth_log         \* history variable: the calls made on auth_service, each
                     \* with the user logged in when it was made and its outcome

authVars == <<logged_in_user, auth_log>>

(* AuthenticatedBankService.__init__ *)
AuthInit ==
    /\ logged_in_user = None
    /\ auth_log = <<>>

(***************************************************************************)
(* src/Concurrency/LockMonitor/lock_monitor.py: account and the customer   *)
(* threads that call account.withdraw.                                     *)
(***************************************************************************)
VARIABLES
    account_open,     \* whether account = BankAccount(initial_balance) has run
    account_balance,  \* account.balance
    account_lock,     \* account.lock: the thread that holds it, or Unlocked
    account_initial,  \* history variable: the initial_balance given
    customers         \* the threads started, in order of start; for each the
                      \* amount it withdraws, where it is in withdraw (pc),
                      \* the value it loaded for balance -= amount (tmp), and
                      \* history: the balance it found at the test (seen), the
                      \* balance when it released the lock (after), whether
                      \* it debited (granted)

lockVars == <<account_open, account_balance, account_lock, account_initial, customers>>

Unlocked == 0

(* before the module's example code has run *)
LockInit ==
    /\ account_open = FALSE
    /\ account_balance = 0
    /\ account_lock = Unlocked
    /\ account_initial = 0
    /\ customers = <<>>

(***************************************************************************)
(* src/Concurrency/ThreadPool/thread_pool.py: restaurant, its executor and *)
(* the caller of process_orders.                                           *)
(***************************************************************************)
VARIABLES
    num_chefs,         \* max_workers of restaurant.executor; 0 before __init__
    orders_prepared,   \* restaurant.orders_prepared
    restaurant_lock,   \* restaurant.lock: the chef that holds it, or Unlocked
    work_queue,        \* the executor's queue of submitted work items
    chefs,             \* the executor's threads; for each where it is (pc),
                       \* the work item it runs and the value it loaded for
                       \* orders_prepared += 1 (tmp)
    orders,            \* the number of orders given to process_orders
    main_pc,           \* where the caller is: new, idle, submit, wait, returned
    main_idx,          \* the index of the comprehension / of the for loop
    futures,           \* for each work item submitted, whether its future is done
    prepared,          \* history variable: how often each work item was prepared
    prepared_before    \* history variable: orders_prepared at the call

threadPoolVars == <<num_chefs, orders_prepared, restaurant_lock, work_queue, chefs,
                    orders, main_pc, main_idx, futures, prepared, prepared_before>>

ThreadPoolInit ==
    /\ num_chefs = 0
    /\ orders_prepared = 0
    /\ restaurant_lock = Unlocked
    /\ work_queue = <<>>
    /\ chefs = <<>>
    /\ orders = 0
    /\ main_pc = "new"
    /\ main_idx = 1
    /\ futures = <<>>
    /\ prepared = <<>>
    /\ prepared_before = 0

(***************************************************************************)
(* src/Behavioral/Command/command.py: editor and invoker.                  *)
(***************************************************************************)
VARIABLES
    editor_text,       \* editor.text, a sequence of characters
    invoker_history,   \* invoker.history, the commands executed and not undone
    text_before,       \* history variable: editor.text before each command of
                       \* invoker.history was executed
    text_start         \* history variable: editor.text when invoker.history
                       \* was last empty

commandVars == <<editor_text, invoker_history, text_before, text_start>>

(* TextEditor.__init__ and EditorInvoker.__init__ *)
CommandInit ==
    /\ editor_text = <<>>
    /\ invoker_history = <<>>
    /\ text_before = <<>>
    /\ text_start = <<>>

(***************************************************************************)
(* src/ObjectPool/object_pool.py: pool and the Reusable objects.           *)
(***************************************************************************)
VARIABLES
    pool_built,     \* whether pool = ObjectPool(size) has run
    pool_size,      \* the size given to ObjectPool (the maxsize of the queue)
    pool_queue,     \* pool.pool, the Reusable objects that are idle
    pool_created,   \* the number of Reusable objects created so far
    pool_held,      \* the objects acquire has returned and nobody has released
    pool_last       \* history variable: the last call on pool and its result

objectPoolVars == <<pool_built, pool_size, pool_queue, pool_created, pool_held, pool_last>>

NoCall == [op |-> "none"]

ObjectPoolInit ==
    /\ pool_built = FALSE
    /\ pool_size = 0
    /\ pool_queue = <<>>
    /\ pool_created = 0
    /\ pool_held = {}
    /\ pool_last = NoCall

otherVars == <<mementoVars, stateVars, singletonVars, authVars,
               lockVars, threadPoolVars, commandVars, objectPoolVars>>

actorVars == <<crew, pc, idx, pending_changes, mailbox, member_mailbox, wpc, wmsg,
               dispatched, stops, signals, exits, observed, received, emptied,
               shutdowns, injected, sent, taken>>

vars == <<actorVars, otherVars>>

(* a step of the actor system leaves every other program's state alone *)
OnlyActor == UNCHANGED otherVars

PositionSet == {Position[i] : i \in 1..Len(Position)}

(* a loop that does not advance through the crew: every iteration         *)
(* addresses the first member                                              *)
CrewAtFirst(i) == Position[1]

(* a loop bound that is one short: the last member is never reached       *)
CrewCountShort == Cardinality(crew) - 1

(* crew_members.items() / .values(): the crew in declaration order *)
CrewCount == Cardinality(crew)
CrewAt(i) == Position[i]

(***************************************************************************)
(* RaceEngineer.__init__ and the entry of coordinate_pit_stop.  The pool   *)
(* is the first n positions of the enum; the code's own pool is all of     *)
(* them (n = Len(Position)).                                               *)
(***************************************************************************)
Init ==
    /\ crew \in {{Position[i] : i \in 1..n} : n \in 1..Len(Position)}
    /\ pc = "create_tasks"
    /\ idx = 1
    /\ pending_changes = crew
    /\ mailbox = <<>>
    /\ member_mailbox = [p \in crew |-> <<>>]
    /\ wpc = [p \in crew |-> "new"]
    /\ wmsg = [p \in crew |-> NoMessage]
    /\ dispatched = [p \in crew |-> 0]
    /\ stops = [p \in crew |-> 0]
    /\ signals = [p \in crew |-> 0]
    /\ exits = [p \in crew |-> 0]
    /\ observed = {}
    /\ received = 0
    /\ emptied = 0
    /\ shutdowns = 0
    /\ injected = 0
    /\ sent = [m \in crew \cup {EngineerMailbox} |-> <<>>]
    /\ taken = [m \in crew \cup {EngineerMailbox} |-> <<>>]
    /\ MementoInit
    /\ StateInit
    /\ SingletonInit
    /\ AuthInit
    /\ LockInit
    /\ ThreadPoolInit
    /\ CommandInit
    /\ ObjectPoolInit

(***************************************************************************)
(* RaceEngineer.coordinate_pit_stop                                        *)
(***************************************************************************)

(* crew_tasks = [asyncio.create_task(member.run()) ...]: every member's    *)
(* run() is scheduled once and will park at its first mailbox.get().       *)
CoordinateCreateTasks ==
    /\ pc = "create_tasks"
    /\ wpc' = [p \in crew |-> "get"]
    /\ pc' = "dispatch"
    /\ idx' = 1
    /\ UNCHANGED <<crew, pending_changes, mailbox, member_mailbox, wmsg,
                   dispatched, stops, signals, exits, observed, received,
                   emptied, shutdowns, injected, sent, taken>>
    /\ OnlyActor

(* a loop test that is off by one: run() returns while one position is    *)
(* still pending                                                           *)
RunContinuesOffByOne(pending) == Cardinality(pending) > 1

(* while self.pending_changes: the test of RaceEngineer.run's loop *)
RunContinues(pending) == pending # {}

(* coordinate_pit_stop without its await self.run(): the stop loop        *)
(* follows the dispatch loop directly                                      *)
AfterRunTestNoWait(pending) == "stop"

(* where coordinate_pit_stop parks next once run()'s loop test is made *)
AfterRunTest(pending) == IF RunContinues(pending) THEN "run_get" ELSE "stop"

(* for position, member in crew_members.items():                           *)
(*     await member.mailbox.put(Message(CHANGE_TIRE, position, mailbox))   *)
(* After the last put the coroutine enters run() and makes its loop test.  *)
CoordinateDispatch ==
    /\ pc = "dispatch"
    /\ idx <= CrewCount
    /\ LET position == CrewAt(idx)
           message == Message(CHANGE_TIRE, position, EngineerMailbox)
       IN  /\ member_mailbox' =
                 [member_mailbox EXCEPT ![position] = QueuePut(@, message)]
           /\ dispatched' = [dispatched EXCEPT ![position] = @ + 1]
    /\ IF idx < CrewCount
          THEN /\ idx' = idx + 1
               /\ pc' = "dispatch"
               /\ UNCHANGED <<emptied, shutdowns>>
          ELSE /\ idx' = 1
               /\ pc' = AfterRunTest(pending_changes)
               /\ shutdowns' = IF pc' = "stop" THEN shutdowns + 1 ELSE shutdowns
               /\ UNCHANGED emptied
    /\ sent' = [sent EXCEPT ![CrewAt(idx)] =
                      Append(@, Message(CHANGE_TIRE, CrewAt(idx), EngineerMailbox))]
    /\ UNCHANGED <<crew, pending_changes, mailbox, wpc, wmsg, stops, signals,
                   exits, observed, received, injected, taken>>
    /\ OnlyActor

(***************************************************************************)
(* RaceEngineer.run                                                        *)
(***************************************************************************)

(* pending_changes.clear() in place of remove(): the first completion     *)
(* empties the set                                                         *)
SetRemoveAll(pending, position) == {}

(* self.pending_changes.remove(msg.position): set.remove raises KeyError   *)
(* when the element is not in the set, and removes it otherwise.           *)
RemoveRaises(pending, position) == position \notin pending
SetRemove(pending, position) == pending \ {position}

(* asyncio.run(main()) on an exception leaving main: every task still      *)
(* running is cancelled before the exception is re-raised.                 *)
CancelAll(w) ==
    [p \in DOMAIN w |-> IF w[p] \in {"stopped", "failed"} THEN w[p] ELSE "cancelled"]

(* msg = await self.mailbox.get()                                          *)
(* if msg.msg_type == MessageType.TIRE_CHANGED:                            *)
(*     self.pending_changes.remove(msg.position)                           *)
(* then the loop test again; when it fails run() returns and the           *)
(* coordinator goes on to its stop loop.                                   *)
RunGet ==
    /\ pc = "run_get"
    /\ QueueCanGet(mailbox)
    /\ LET msg == QueueHead(mailbox)
       IN  /\ mailbox' = QueueRest(mailbox)
           /\ received' = received + 1
           /\ IF msg.msg_type = TIRE_CHANGED
                 THEN IF RemoveRaises(pending_changes, msg.position)
                         THEN /\ pc' = "raised"
                              /\ wpc' = CancelAll(wpc)
                              /\ UNCHANGED <<pending_changes, observed, emptied,
                                             shutdowns>>
                         ELSE /\ pending_changes' =
                                    SetRemove(pending_changes, msg.position)
                              /\ observed' = observed \cup {msg.position}
                              /\ pc' = AfterRunTest(pending_changes')
                              /\ emptied' = IF pending_changes # {} /\ pending_changes' = {}
                                               THEN emptied + 1 ELSE emptied
                              /\ shutdowns' = IF pc' = "stop"
                                                 THEN shutdowns + 1 ELSE shutdowns
                              /\ UNCHANGED wpc
                 ELSE /\ pc' = AfterRunTest(pending_changes)
                      /\ shutdowns' = IF pc' = "stop" THEN shutdowns + 1 ELSE shutdowns
                      /\ UNCHANGED <<pending_changes, observed, emptied, wpc>>
    /\ idx' = 1
    /\ taken' = [taken EXCEPT ![EngineerMailbox] = Append(@, QueueHead(mailbox))]
    /\ UNCHANGED <<crew, member_mailbox, wmsg, dispatched, stops, signals, exits,
                   injected, sent>>
    /\ OnlyActor

(* a stop loop that starts over when it reaches the end of the crew       *)
CoordinateStopAgain ==
    /\ pc = "stop"
    /\ idx <= CrewCount
    /\ LET position == CrewAt(idx)
       IN  /\ member_mailbox' = [member_mailbox EXCEPT
                 ![position] = QueuePut(@, Message(STOP, None, None))]
           /\ stops' = [stops EXCEPT ![position] = @ + 1]
    /\ IF idx < CrewCount
          THEN idx' = idx + 1 /\ pc' = "stop"
          ELSE idx' = 1 /\ pc' = "stop"
    /\ sent' = [sent EXCEPT ![CrewAt(idx)] = Append(@, Message(STOP, None, None))]
    /\ UNCHANGED <<crew, pending_changes, mailbox, wpc, wmsg, dispatched, signals,
                   exits, observed, received, emptied, shutdowns, injected, taken>>
    /\ OnlyActor

(* for member in self.crew_members.values():                               *)
(*     await member.mailbox.put(Message(MessageType.STOP, None))           *)
CoordinateStop ==
    /\ pc = "stop"
    /\ idx <= CrewCount
    /\ LET position == CrewAt(idx)
       IN  /\ member_mailbox' = [member_mailbox EXCEPT
                 ![position] = QueuePut(@, Message(STOP, None, None))]
           /\ stops' = [stops EXCEPT ![position] = @ + 1]
    /\ IF idx < CrewCount
          THEN idx' = idx + 1 /\ pc' = "stop"
          ELSE idx' = 1 /\ pc' = "gather"
    /\ sent' = [sent EXCEPT ![CrewAt(idx)] = Append(@, Message(STOP, None, None))]
    /\ UNCHANGED <<crew, pending_changes, mailbox, wpc, wmsg, dispatched, signals,
                   exits, observed, received, emptied, shutdowns, injected, taken>>
    /\ OnlyActor

(* the last await left out: coordinate_pit_stop returns after its stop    *)
(* loop without waiting for the tasks                                      *)
GatherNoWait(w) == TRUE

(* a wait for the first task to finish instead of for all of them          *)
GatherAny(w) == \E p \in DOMAIN w : w[p] = "stopped"

(* await asyncio.gather(crew_tasks...): resumes once every task is done, or  *)
(* with the exception of a task that raised.                               *)
GatherRaises(w) == \E p \in DOMAIN w : w[p] = "failed"
GatherDone(w) == \A p \in DOMAIN w : w[p] = "stopped"

CoordinateGather ==
    /\ pc = "gather"
    /\ GatherRaises(wpc) \/ GatherDone(wpc)
    /\ IF GatherRaises(wpc)
          THEN pc' = "raised" /\ wpc' = CancelAll(wpc)
          ELSE pc' = "returned" /\ UNCHANGED wpc
    /\ UNCHANGED <<crew, idx, pending_changes, mailbox, member_mailbox, wmsg,
                   dispatched, stops, signals, exits, observed, received, emptied,
                   shutdowns, injected, sent, taken>>
    /\ OnlyActor

(***************************************************************************)
(* PitCrewMember.run, for the member at position p                         *)
(***************************************************************************)

(* run() without its two tests on msg.msg_type: whatever is taken starts   *)
(* the work                                                                *)
AfterGetAnyIsWork(msg_type) == "sleep"

(* run() without its break: a STOP is taken like any other message and    *)
(* the loop goes back to get()                                             *)
AfterGetNoBreak(msg_type) == IF msg_type = CHANGE_TIRE THEN "sleep" ELSE "get"

(* where run() parks after a message of the given type has been taken:     *)
(* STOP breaks out of the loop, CHANGE_TIRE starts asyncio.sleep(1), any   *)
(* other type goes round the loop to get() again.                          *)
AfterGet(msg_type) ==
    IF msg_type = STOP THEN "stopped"
    ELSE IF msg_type = CHANGE_TIRE THEN "sleep"
    ELSE "get"

(* msg = await self.mailbox.get() and the two tests on msg.msg_type *)
MemberGet(p) ==
    /\ p \in crew
    /\ wpc[p] = "get"
    /\ QueueCanGet(member_mailbox[p])
    /\ LET msg == QueueHead(member_mailbox[p])
       IN  /\ member_mailbox' = [member_mailbox EXCEPT ![p] = QueueRest(@)]
           /\ wmsg' = [wmsg EXCEPT ![p] = msg]
           /\ wpc' = [wpc EXCEPT ![p] = AfterGet(msg.msg_type)]
           /\ exits' = [exits EXCEPT ![p] = IF wpc'[p] = "stopped" THEN @ + 1 ELSE @]
    /\ taken' = [taken EXCEPT ![p] = Append(@, QueueHead(member_mailbox[p]))]
    /\ UNCHANGED <<crew, pc, idx, pending_changes, mailbox, dispatched, stops,
                   signals, observed, received, emptied, shutdowns, injected, sent>>
    /\ OnlyActor

(* await asyncio.sleep(1) returns: the simulated work is done *)
MemberSleep(p) ==
    /\ p \in crew
    /\ wpc[p] = "sleep"
    /\ wpc' = [wpc EXCEPT ![p] = "put"]
    /\ UNCHANGED <<crew, pc, idx, pending_changes, mailbox, member_mailbox, wmsg,
                   dispatched, stops, signals, exits, observed, received, emptied,
                   shutdowns, injected, sent, taken>>
    /\ OnlyActor

(* a response that names the first position whoever sends it              *)
ResponseFirst(p) == Message(TIRE_CHANGED, Position[1], None)

(* response = Message(MessageType.TIRE_CHANGED, self.position) *)
Response(p) == Message(TIRE_CHANGED, p, None)

(* await msg.sender_mailbox.put(response), then round the loop to get().   *)
(* A msg without a sender_mailbox makes the put raise AttributeError.      *)
MemberPut(p) ==
    /\ p \in crew
    /\ wpc[p] = "put"
    /\ IF wmsg[p].sender_mailbox = EngineerMailbox
          THEN /\ mailbox' = QueuePut(mailbox, Response(p))
               /\ signals' = [signals EXCEPT ![p] = @ + 1]
               /\ wpc' = [wpc EXCEPT ![p] = "get"]
          ELSE /\ wpc' = [wpc EXCEPT ![p] = "failed"]
               /\ UNCHANGED <<mailbox, signals>>
    /\ sent' = IF wmsg[p].sender_mailbox = EngineerMailbox
                   THEN [sent EXCEPT ![EngineerMailbox] = Append(@, Response(p))]
                   ELSE sent
    /\ UNCHANGED <<crew, pc, idx, pending_changes, member_mailbox, wmsg, dispatched,
                   stops, exits, observed, received, emptied, shutdowns, injected, taken>>
    /\ OnlyActor

Engineer ==
    \/ CoordinateCreateTasks
    \/ CoordinateDispatch
    \/ RunGet
    \/ CoordinateStop
    \/ CoordinateGather

Member(p) ==
    \/ MemberGet(p)
    \/ MemberSleep(p)
    \/ MemberPut(p)

Next ==
    \/ Engineer
    \/ \E p \in PositionSet : Member(p)

Spec == Init /\ [][Next]_vars

(***************************************************************************)
(* The cycle with a fair scheduler: the event loop runs every task that is *)
(* ready, so neither the coordinator nor a crew member waits forever on a  *)
(* step it can take.                                                       *)
(***************************************************************************)
LiveSpec ==
    /\ Init
    /\ [][Next]_vars
    /\ WF_vars(Engineer)
    /\ \A p \in PositionSet : WF_vars(Member(p))

(***************************************************************************)
(* A fault during the simulated work: an exception leaving                 *)
(* asyncio.sleep(1) is not caught in run(), so the member's task ends      *)
(* there and the put of the response is never reached.                     *)
(***************************************************************************)
MemberFail(p) ==
    /\ p \in crew
    /\ wpc[p] = "sleep"
    /\ wpc' = [wpc EXCEPT ![p] = "failed"]
    /\ UNCHANGED <<crew, pc, idx, pending_changes, mailbox, member_mailbox, wmsg,
                   dispatched, stops, signals, exits, observed, received, emptied,
                   shutdowns, injected, sent, taken>>
    /\ OnlyActor

NextFail ==
    \/ Next
    \/ \E p \in PositionSet : MemberFail(p)

SpecFail ==
    /\ Init
    /\ [][NextFail]_vars
    /\ WF_vars(Engineer)
    /\ \A p \in PositionSet : WF_vars(Member(p))

(***************************************************************************)
(* A retry: a TIRE_CHANGED that a member has already put reaches the       *)
(* engineer's mailbox a second time.                                       *)
(***************************************************************************)
MaxInjected == 1

InjectDuplicate(p) ==
    /\ p \in crew
    /\ injected < MaxInjected
    /\ signals[p] >= 1
    /\ pc = "run_get"
    /\ mailbox' = QueuePut(mailbox, Response(p))
    /\ injected' = injected + 1
    /\ sent' = [sent EXCEPT ![EngineerMailbox] = Append(@, Response(p))]
    /\ UNCHANGED <<crew, pc, idx, pending_changes, member_mailbox, wpc, wmsg,
                   dispatched, stops, signals, exits, observed, received, emptied,
                   shutdowns, taken>>
    /\ OnlyActor

NextDup ==
    \/ Next
    \/ \E p \in PositionSet : InjectDuplicate(p)

(* RaceEngineer.__init__ as written: the crew is the whole enum *)
InitFull == Init /\ crew = PositionSet

SpecDup == InitFull /\ [][NextDup]_vars

(***************************************************************************)
(* Properties of one coordination cycle                                    *)
(***************************************************************************)

HasMessage(q, msg_type) == \E i \in 1..Len(q) : q[i].msg_type = msg_type
DispatchOver == pc \notin {"create_tasks", "dispatch"}
StopIssued == pc \in {"stop", "gather", "returned"}

(* C1: the dispatch loop puts exactly one CHANGE_TIRE message to each crew *)
(* member, for every size of the crew: while it runs, the members before   *)
(* idx have one and the others none; once it is over every member has      *)
(* exactly one.  pending_changes has as many elements as the crew when the *)
(* engineer starts to aggregate (nothing received yet), and none when the  *)
(* stop loop starts and from then on.                                      *)
C1_OneTaskPerWorker ==
    /\ \A p \in crew : dispatched[p] <= 1
    /\ pc = "dispatch" =>
          \A i \in 1..CrewCount : dispatched[Position[i]] = IF i < idx THEN 1 ELSE 0
    /\ DispatchOver => \A p \in crew : dispatched[p] = 1
    /\ (DispatchOver /\ received = 0) => Cardinality(pending_changes) = CrewCount
    /\ (StopIssued \/ \E p \in crew : stops[p] > 0) => Cardinality(pending_changes) = 0

(* C1 witness: the full crew, each member dispatched to once, at the       *)
(* moment the first STOP is about to be put.                               *)
C1_Witness ==
    /\ crew = PositionSet
    /\ pc = "stop" /\ idx = 1
    /\ \A p \in crew : dispatched[p] = 1 /\ stops[p] = 0
    /\ pending_changes = {}

(* C2: whenever a STOP message has been put to some member's mailbox (it   *)
(* is queued there, or the member has taken it), pending_changes is empty  *)
(* and the engineer has observed and removed the TIRE_CHANGED of every     *)
(* member of the crew.                                                     *)
C2_NoStopWhilePending ==
    (\E p \in crew : \/ stops[p] > 0
                     \/ HasMessage(member_mailbox[p], STOP)
                     \/ wmsg[p].msg_type = STOP)
        => /\ pending_changes = {}
           /\ observed = crew

(* C2 witness: one member has taken its STOP while another's is queued.    *)
C2_Witness ==
    \E p, q \in crew :
        /\ wmsg[p].msg_type = STOP
        /\ HasMessage(member_mailbox[q], STOP)

(* C3: a member whose mailbox holds a STOP, or that has taken one, has     *)
(* already put its own TIRE_CHANGED; it is not in its simulated work or    *)
(* about to put, and no CHANGE_TIRE is left unprocessed in its mailbox.    *)
C3_StopAfterOwnCompletion ==
    \A p \in crew :
        (HasMessage(member_mailbox[p], STOP) \/ wmsg[p].msg_type = STOP)
            => /\ signals[p] >= 1
               /\ wpc[p] \notin {"new", "sleep", "put"}
               /\ ~HasMessage(member_mailbox[p], CHANGE_TIRE)

(* C3 witness: a member that has sent its completion is parked at get()    *)
(* with a STOP at the head of its mailbox.                                 *)
C3_Witness ==
    \E p \in crew :
        /\ wpc[p] = "get"
        /\ signals[p] = 1
        /\ HasMessage(member_mailbox[p], STOP)

(* the engineer is parked at get() with, at the head of its mailbox, a     *)
(* TIRE_CHANGED for a position it has already removed                      *)
DuplicateAtHead ==
    /\ pc = "run_get"
    /\ QueueCanGet(mailbox)
    /\ QueueHead(mailbox).msg_type = TIRE_CHANGED
    /\ QueueHead(mailbox).position \in observed
    /\ QueueHead(mailbox).position \notin pending_changes

(* C4: when the engineer takes a TIRE_CHANGED for a position it has        *)
(* already removed, pending_changes is unchanged, no exception is raised,  *)
(* the aggregation loop goes on (the engineer parks at get() again) and    *)
(* the stop loop is not entered.                                           *)
C4_DuplicateIsNoOp ==
    [][(DuplicateAtHead /\ received' = received + 1)
          => /\ pending_changes' = pending_changes
             /\ pc' = "run_get"
             /\ wpc' = wpc
             /\ shutdowns' = shutdowns]_vars

AllStopped == \A p \in crew : wpc[p] = "stopped"

(* C5: with a fair scheduler and no failing member the cycle ends:         *)
(* eventually pending_changes is empty, one STOP has been put to every     *)
(* member, every member's loop has exited and coordinate_pit_stop has      *)
(* returned.                                                               *)
C5_CycleTerminates ==
    <>(/\ pc = "returned"
       /\ pending_changes = {}
       /\ \A p \in crew : stops[p] = 1
       /\ AllStopped)

(* C5 witness: the full crew's cycle has ended, every mailbox drained.     *)
C5_Witness ==
    /\ crew = PositionSet
    /\ pc = "returned"
    /\ mailbox = <<>>
    /\ \A p \in crew : member_mailbox[p] = <<>> /\ stops[p] = 1 /\ exits[p] = 1

(* C6: coordinate_pit_stop has returned only in states in which every     *)
(* member's loop has exited; no member is then parked at get(), asleep or  *)
(* about to put.                                                           *)
C6_ReturnOnlyWhenAllStopped ==
    pc = "returned" => AllStopped

(* C6 witness: the coordinator of a crew of more than one has returned.    *)
C6_Witness ==
    /\ pc = "returned"
    /\ CrewCount > 1

(* C7: a member's loop exits at most once, and exactly once by the time    *)
(* the coordinator returns; a member that has exited stays exited, takes   *)
(* nothing more from its mailbox and puts nothing more.                    *)
C7_StoppedOnceForGood ==
    [][\A p \in crew :
          /\ exits'[p] <= 1
          /\ pc' = "returned" => exits'[p] = 1
          /\ wpc[p] = "stopped" =>
                /\ wpc'[p] = "stopped"
                /\ member_mailbox'[p] = member_mailbox[p]
                /\ wmsg'[p] = wmsg[p]
                /\ signals'[p] = signals[p]
                /\ exits'[p] = exits[p]]_vars

(* C7 witness: some members have exited while the coordinator is still     *)
(* putting STOP messages to the others.                                    *)
C7_Witness ==
    /\ pc = "stop"
    /\ \E p, q \in crew : wpc[p] = "stopped" /\ exits[p] = 1 /\ stops[q] = 0

Failed(p) == p \in crew /\ wpc[p] = "failed"

(* the cycle is stuck on the member at p: its position is still pending,   *)
(* it has put no TIRE_CHANGED, the coordinator has not left run(), no STOP *)
(* has been put and no member's loop has exited                            *)
Stalled(p) ==
    /\ Failed(p)
    /\ signals[p] = 0
    /\ p \in pending_changes
    /\ pc \in {"dispatch", "run_get"}
    /\ \A q \in crew : stops[q] = 0 /\ wpc[q] # "stopped"

(* every member is either failed or parked at get() on an empty mailbox,   *)
(* and the engineer is parked at get() on an empty mailbox                 *)
AllBlocked ==
    /\ pc = "run_get"
    /\ mailbox = <<>>
    /\ \A q \in crew : wpc[q] \in {"get", "failed"} /\ member_mailbox[q] = <<>>

(* C8: once a member has failed in its simulated work, from then on and    *)
(* forever it has sent no TIRE_CHANGED, its position is in                 *)
(* pending_changes, run() has not returned, no STOP has been put to any    *)
(* member and the coordinator has not returned; and the system comes to    *)
(* rest with the engineer and the other members blocked in get().          *)
C8_FailureStallsCycle ==
    \A p \in PositionSet :
        /\ [](Failed(p) => []Stalled(p))
        /\ Failed(p) ~> []AllBlocked

(* C8 witness: in the full crew one member has failed, the other three     *)
(* have been observed, and everything is blocked in get().                 *)
C8_Witness ==
    /\ crew = PositionSet
    /\ AllBlocked
    /\ Cardinality(pending_changes) = 1
    /\ \A p \in crew : Failed(p) <=> p \in pending_changes

(* C9: pending_changes starts as the set of all crew positions; no step    *)
(* adds a position to it; and the step in which the engineer takes a       *)
(* TIRE_CHANGED removes exactly the position the message carries.          *)
C9_PendingShrinks ==
    /\ pending_changes = crew
    /\ [][/\ pending_changes' \subseteq pending_changes
          /\ (/\ pc = "run_get"
              /\ received' = received + 1
              /\ QueueHead(mailbox).msg_type = TIRE_CHANGED)
                => pending_changes' = pending_changes \ {QueueHead(mailbox).position}]_vars

(* C9 witness: two positions of the full crew removed, two still pending.  *)
C9_Witness ==
    /\ crew = PositionSet
    /\ Cardinality(pending_changes) = 2
    /\ observed = crew \ pending_changes

(* C10: pending_changes goes from non-empty to empty at most once, and has *)
(* done so exactly once whenever the stop loop has been reached; the stop  *)
(* loop is entered at most once, and only by the step of run() that takes  *)
(* the last pending position out of the set.                               *)
C10_EmptyOnceTriggersStop ==
    [][/\ emptied' <= 1
       /\ shutdowns' <= 1
       /\ StopIssued' => (emptied' = 1 /\ shutdowns' = 1 /\ pending_changes' = {})
       /\ (pc # "stop" /\ pc' = "stop") =>
             /\ pc = "run_get"
             /\ pending_changes # {}
             /\ pending_changes' = {}
             /\ emptied' = emptied + 1
       /\ (pending_changes # {} /\ pending_changes' = {}) => pc' = "stop"]_vars

(* C10 witness: the step into the stop loop has just been taken.           *)
C10_Witness ==
    /\ pc = "stop" /\ idx = 1
    /\ emptied = 1 /\ shutdowns = 1
    /\ \A p \in crew : stops[p] = 0 /\ signals[p] = 1
    /\ CrewCount > 1

(***************************************************************************)
(* Properties of the mailboxes                                             *)
(***************************************************************************)

Mailboxes == crew \cup {EngineerMailbox}
Contents(m) == IF m = EngineerMailbox THEN mailbox ELSE member_mailbox[m]
IsPrefix(a, b) == Len(a) <= Len(b) /\ a = SubSeq(b, 1, Len(a))
Count(q, msg_type) == Cardinality({i \in 1..Len(q) : q[i].msg_type = msg_type})

(* what is put to a mailbox is what has been got from it followed by what  *)
(* it still holds: nothing dropped, nothing twice, nothing out of order    *)
Conserved == \A m \in Mailboxes : sent[m] = taken[m] \o Contents(m)

(* a put is never held back, whatever the mailbox already holds *)
PutNeverBlocks ==
    /\ pc = "dispatch" => ENABLED CoordinateDispatch
    /\ pc = "stop" => ENABLED CoordinateStop
    /\ \A p \in crew : wpc[p] = "put" => ENABLED MemberPut(p)

(* every message put has been got, exactly once, and the cycle is over *)
AllDelivered ==
    /\ pc = "returned"
    /\ \A m \in Mailboxes : Contents(m) = <<>> /\ taken[m] = sent[m]

(* C11: in every state each mailbox's puts equal its gets followed by its  *)
(* contents (no message dropped, duplicated or reordered), no put is       *)
(* blocked, each member gets its CHANGE_TIRE before its STOP, and under a  *)
(* fair scheduler every message put is eventually got.                     *)
C11_MailboxFifo ==
    /\ [](Conserved /\ PutNeverBlocks)
    /\ [](\A p \in crew :
             IsPrefix(taken[p], <<Message(CHANGE_TIRE, p, EngineerMailbox),
                                  Message(STOP, None, None)>>))
    /\ <>[]AllDelivered

(* C11 witness: the engineer has got one TIRE_CHANGED and at least two     *)
(* more wait in its mailbox.                                               *)
C11_Witness ==
    /\ Len(taken[EngineerMailbox]) = 1
    /\ Len(mailbox) >= 2

(* C12: a member has at most one CHANGE_TIRE queued or in progress, and at *)
(* most one is ever put to its mailbox; none is put while an earlier one   *)
(* is unacknowledged.                                                      *)
C12_OneWorkTaskAtATime ==
    \A p \in crew :
        /\ dispatched[p] <= 1
        /\ Count(sent[p], CHANGE_TIRE) <= 1
        /\ Count(member_mailbox[p], CHANGE_TIRE)
              + (IF wpc[p] \in {"sleep", "put"} THEN 1 ELSE 0) <= 1
        /\ Count(taken[p], CHANGE_TIRE) <= signals[p]
              + (IF wpc[p] \in {"sleep", "put"} THEN 1 ELSE 0)

(* C12 witness: one member is in its simulated work while another's        *)
(* CHANGE_TIRE is still queued.                                            *)
C12_Witness ==
    \E p, q \in crew :
        /\ wpc[p] = "sleep"
        /\ Count(member_mailbox[q], CHANGE_TIRE) = 1

(* C13: each member puts at most one TIRE_CHANGED in a cycle; the          *)
(* TIRE_CHANGED messages in the engineer's mailbox carry pairwise distinct *)
(* positions, each of them still in pending_changes.                       *)
C13_NoDuplicateCompletion ==
    /\ \A p \in crew : signals[p] <= 1
    /\ \A p \in crew : Cardinality({i \in 1..Len(sent[EngineerMailbox]) :
                                       sent[EngineerMailbox][i].position = p}) <= 1
    /\ \A i, j \in 1..Len(mailbox) : mailbox[i].position = mailbox[j].position => i = j
    /\ \A i \in 1..Len(mailbox) :
          /\ mailbox[i].msg_type = TIRE_CHANGED
          /\ mailbox[i].position \in pending_changes

(* C13 witness: every member of the full crew has put its TIRE_CHANGED and *)
(* none has been got yet.                                                  *)
C13_Witness ==
    /\ crew = PositionSet
    /\ Len(mailbox) = CrewCount
    /\ received = 0

(* C14: no message is put to the mailbox of a member whose loop has        *)
(* exited, and once a STOP has been put to a mailbox it is the last       *)
(* message ever put there.                                                 *)
C14_NoSendAfterStop ==
    [][\A p \in crew :
          /\ wpc[p] = "stopped" => sent'[p] = sent[p]
          /\ stops[p] >= 1 => sent'[p] = sent[p]
          /\ stops'[p] >= 1 => sent'[p][Len(sent'[p])].msg_type = STOP]_vars

(* C14 witness: a member has exited while the stop loop is still putting   *)
(* STOP messages to the others.                                            *)
C14_Witness ==
    /\ pc = "stop"
    /\ \E p, q \in crew : wpc[p] = "stopped" /\ stops[q] = 0 /\ wpc[q] = "get"

(* C19: when the engineer is parked at its first get(), and at every get   *)
(* after it, a CHANGE_TIRE has been put to every member's mailbox; so a    *)
(* member that has not yet worked finds its task without any TIRE_CHANGED  *)
(* having been got.                                                        *)
C19_DispatchIsScatter ==
    (pc = "run_get" \/ received > 0) =>
        \A p \in crew :
            /\ dispatched[p] = 1
            /\ (wpc[p] = "get" /\ signals[p] = 0) =>
                  HasMessage(member_mailbox[p], CHANGE_TIRE)

(* C19 witness: the engineer is parked at its first get() and every member *)
(* of the full crew has its task queued, none started.                     *)
C19_Witness ==
    /\ crew = PositionSet
    /\ pc = "run_get" /\ received = 0
    /\ \A p \in crew : wpc[p] = "get" /\ HasMessage(member_mailbox[p], CHANGE_TIRE)

(* the member at p takes a step of its run() *)
MemberSteps(p) == wpc[p] \in {"get", "sleep", "put"} /\ wpc'[p] # wpc[p]

(* C20: a step of a member changes nothing of the engineer's state, of     *)
(* another member's state or of another member's mailbox; the only put it  *)
(* makes is, at the end of the work on a CHANGE_TIRE, one TIRE_CHANGED     *)
(* carrying the member's own position, to the mailbox named in that        *)
(* message's sender_mailbox; and it has put exactly one TIRE_CHANGED per   *)
(* CHANGE_TIRE it has finished.                                            *)
C20_MemberFrame ==
    [][\A p \in crew :
          /\ MemberSteps(p) =>
                /\ UNCHANGED <<pc, idx, pending_changes, crew>>
                /\ \A q \in crew \ {p} :
                      /\ wpc'[q] = wpc[q]
                      /\ wmsg'[q] = wmsg[q]
                      /\ member_mailbox'[q] = member_mailbox[q]
                      /\ sent'[q] = sent[q]
                /\ sent'[p] = sent[p]
                /\ IF wpc[p] = "put"
                      THEN /\ wmsg[p].msg_type = CHANGE_TIRE
                           /\ wmsg[p].sender_mailbox = EngineerMailbox
                           /\ mailbox' = Append(mailbox, Message(TIRE_CHANGED, p, None))
                           /\ signals'[p] = signals[p] + 1
                      ELSE mailbox' = mailbox /\ signals'[p] = signals[p]
          /\ signals'[p] = Count(taken'[p], CHANGE_TIRE)
                              - (IF wpc'[p] \in {"sleep", "put"} THEN 1 ELSE 0)]_vars

(* C20 witness: a member has just put its TIRE_CHANGED and is back at      *)
(* get() while another member is still in its work.                        *)
C20_Witness ==
    \E p, q \in crew :
        /\ wpc[p] = "get" /\ signals[p] = 1
        /\ mailbox # <<>> /\ mailbox[Len(mailbox)].position = p
        /\ wpc[q] = "sleep"

(***************************************************************************)
(* The crew member's life cycle and the order of the completions           *)
(***************************************************************************)

(* where a member is in run(): parked at mailbox.get() (or not yet         *)
(* started) it is Idle, between taking a CHANGE_TIRE and the return of the *)
(* put of its response it is Working, after the break it is Stopped; a     *)
(* task ended by an exception or a cancellation is Aborted.                *)
WorkerState(w) ==
    IF w \in {"new", "get"} THEN "Idle"
    ELSE IF w \in {"sleep", "put"} THEN "Working"
    ELSE IF w = "stopped" THEN "Stopped"
    ELSE "Aborted"

(* member p takes a message of the given type in this step *)
Takes(p, msg_type) ==
    /\ Len(taken'[p]) = Len(taken[p]) + 1
    /\ taken'[p][Len(taken'[p])].msg_type = msg_type

(* C21: every member starts Idle and is always Idle, Working or Stopped;   *)
(* it becomes Working only from Idle, in the step that takes a CHANGE_TIRE *)
(* from its mailbox; it leaves Working only to Idle, in the step that puts *)
(* its TIRE_CHANGED; it becomes Stopped only from Idle, in the step that   *)
(* takes a STOP; and once Stopped it stays Stopped.                        *)
C21_WorkerStateMachine ==
    /\ \A p \in crew : WorkerState(wpc[p]) = "Idle"
    /\ [][\A p \in crew :
            LET old == WorkerState(wpc[p])
                new == WorkerState(wpc'[p])
            IN  /\ new \in {"Idle", "Working", "Stopped"}
                /\ (old # "Working" /\ new = "Working") =>
                      (old = "Idle" /\ Takes(p, CHANGE_TIRE))
                /\ (old = "Working" /\ new # "Working") =>
                      (new = "Idle" /\ signals'[p] = signals[p] + 1
                                    /\ Len(sent'[EngineerMailbox]) =
                                          Len(sent[EngineerMailbox]) + 1)
                /\ (old # "Stopped" /\ new = "Stopped") =>
                      (old = "Idle" /\ Takes(p, STOP))
                /\ old = "Stopped" => new = "Stopped"
                /\ (old = "Idle" /\ new = "Idle") => taken'[p] = taken[p]]_vars

(* C21 witness: one member has gone Idle, Working, Idle, Stopped (it has   *)
(* taken its CHANGE_TIRE and then its STOP) while another is Idle again    *)
(* after its work, its STOP not yet taken.                                 *)
C21_Witness ==
    \E p, q \in crew :
        /\ WorkerState(wpc[p]) = "Stopped"
        /\ Len(taken[p]) = 2
        /\ taken[p][1].msg_type = CHANGE_TIRE /\ taken[p][2].msg_type = STOP
        /\ signals[p] = 1
        /\ WorkerState(wpc[q]) = "Idle"
        /\ Len(taken[q]) = 1 /\ signals[q] = 1

(* the positions of the messages the engineer has taken so far *)
ReceivedPositions ==
    {taken[EngineerMailbox][i].position : i \in 1..Len(taken[EngineerMailbox])}

(* C22: in whatever order the completions reach the engineer's mailbox,    *)
(* after k receives pending_changes is the crew without the k positions    *)
(* received so far (k distinct positions); the engineer never receives     *)
(* more than CrewCount times, and when its loop is over it has received    *)
(* exactly CrewCount times and pending_changes is empty.                   *)
C22_OrderIndependent ==
    /\ Len(taken[EngineerMailbox]) = received
    /\ Cardinality(ReceivedPositions) = received
    /\ received <= CrewCount
    /\ pending_changes = crew \ ReceivedPositions
    /\ StopIssued => (received = CrewCount /\ pending_changes = {})

(* C22 witness: the full crew's completions taken in the order third,      *)
(* first, fourth, second; the loop is over.                                *)
C22_Witness ==
    /\ crew = PositionSet
    /\ StopIssued
    /\ [i \in 1..Len(taken[EngineerMailbox]) |-> taken[EngineerMailbox][i].position]
          = <<Position[3], Position[1], Position[4], Position[2]>>

(***************************************************************************)
(* src/Behavioral/Memento/memento.py                                       *)
(***************************************************************************)

MaxDocCalls == 5

(* the texts typed, and the arguments of apply_formatting *)
Texts == {<<"a">>, <<"b", "c">>}
FormatRanges == {<<0, 5>>}
FormatTypes == {"bold", "italic"}

(* d[k] = v on a dict value *)
DictSet(d, k, v) == [x \in DOMAIN d \cup {k} |-> IF x = k THEN v ELSE d[x]]

(* a name bound to the same dict object instead of to a copy of it *)
CopyRefAlias(heap, ref) == ref

(* dict.copy(): a new dict object with the same items *)
CopyRef(heap, ref) == Len(heap) + 1
CopyHeap(heap, ref) == Append(heap, heap[ref])

(* a step of doc or manager leaves every other program's state alone *)
OnlyMemento ==
    UNCHANGED <<actorVars, stateVars, singletonVars, authVars,
                lockVars, threadPoolVars, commandVars, objectPoolVars>>

(* Document.type *)
DocType(text) ==
    /\ doc_clock < MaxDocCalls
    /\ doc_content' = SubSeq(doc_content, 1, doc_cursor_position)
                         \o text
                         \o SubSeq(doc_content, doc_cursor_position + 1, Len(doc_content))
    /\ doc_cursor_position' = doc_cursor_position + Len(text)
    /\ doc_clock' = doc_clock + 1
    /\ UNCHANGED <<doc_formatting, dicts, manager_history, undo_result, saved>>
    /\ OnlyMemento

(* Document.apply_formatting *)
DocApplyFormatting(start, end, format_type) ==
    /\ doc_clock < MaxDocCalls
    /\ dicts' = [dicts EXCEPT ![doc_formatting] = DictSet(@, <<start, end>>, format_type)]
    /\ doc_clock' = doc_clock + 1
    /\ UNCHANGED <<doc_content, doc_formatting, doc_cursor_position, manager_history,
                   undo_result, saved>>
    /\ OnlyMemento

(* @dataclass DocumentState *)
DocumentState(content, formatting, cursor_position, timestamp) ==
    [content |-> content, formatting |-> formatting,
     cursor_position |-> cursor_position, timestamp |-> timestamp]

(* Document.create_snapshot, given the dict object its copy() returns *)
CreateSnapshot(formatting_copy) ==
    DocumentState(doc_content, formatting_copy, doc_cursor_position, doc_clock)

(* DocumentManager.save *)
ManagerSave ==
    /\ doc_clock < MaxDocCalls
    /\ manager_history' =
          Append(manager_history, CreateSnapshot(CopyRef(dicts, doc_formatting)))
    /\ dicts' = CopyHeap(dicts, doc_formatting)
    /\ saved' = Append(saved, [content |-> doc_content,
                               formatting |-> dicts[doc_formatting],
                               cursor_position |-> doc_cursor_position])
    /\ doc_clock' = doc_clock + 1
    /\ UNCHANGED <<doc_content, doc_formatting, doc_cursor_position, undo_result>>
    /\ OnlyMemento

(* DocumentManager.undo, with Document.restore_from_snapshot *)
ManagerUndo ==
    /\ doc_clock < MaxDocCalls
    /\ doc_clock' = doc_clock + 1
    /\ IF manager_history = <<>>
          THEN /\ undo_result' = PyFalse
               /\ UNCHANGED <<doc_content, doc_formatting, doc_cursor_position, dicts,
                              manager_history, saved>>
          ELSE LET previous_state == manager_history[Len(manager_history)]
               IN  /\ manager_history' =
                         SubSeq(manager_history, 1, Len(manager_history) - 1)
                   /\ doc_content' = previous_state.content
                   /\ doc_formatting' = CopyRef(dicts, previous_state.formatting)
                   /\ dicts' = CopyHeap(dicts, previous_state.formatting)
                   /\ doc_cursor_position' = previous_state.cursor_position
                   /\ undo_result' = PyTrue
                   /\ saved' = SubSeq(saved, 1, Len(saved) - 1)
    /\ OnlyMemento

NextMemento ==
    \/ \E text \in Texts : DocType(text)
    \/ \E r \in FormatRanges, t \in FormatTypes : DocApplyFormatting(r[1], r[2], t)
    \/ ManagerSave
    \/ ManagerUndo

SpecMemento == InitFull /\ [][NextMemento]_vars

(* the snapshots of manager.history still hold what was saved *)
SnapshotsIntact ==
    /\ Len(manager_history) = Len(saved)
    /\ \A i \in 1..Len(saved) :
          /\ manager_history[i].content = saved[i].content
          /\ dicts[manager_history[i].formatting] = saved[i].formatting
          /\ manager_history[i].cursor_position = saved[i].cursor_position

(* C15: an undo() on a non-empty history returns True and leaves doc's     *)
(* content, formatting and cursor_position equal to what they were at the  *)
(* latest save() not yet undone, whatever type() and apply_formatting()    *)
(* calls came after that save; and no call changes what an earlier save    *)
(* recorded.                                                               *)
C15_UndoRestoresLastSave ==
    [][/\ SnapshotsIntact'
       /\ (saved # <<>> /\ Len(manager_history') < Len(manager_history)) =>
             /\ undo_result' = PyTrue
             /\ doc_content' = saved[Len(saved)].content
             /\ dicts'[doc_formatting'] = saved[Len(saved)].formatting
             /\ doc_cursor_position' = saved[Len(saved)].cursor_position]_vars

(* C15 witness: an undo has just brought back a saved document that had    *)
(* no formatting, after a save, a type and an apply_formatting.            *)
C15_Witness ==
    /\ undo_result = PyTrue
    /\ doc_content # <<>>
    /\ dicts[doc_formatting] = EmptyDict
    /\ \E i \in 1..Len(dicts) : dicts[i] # EmptyDict

(***************************************************************************)
(* src/Behavioral/State/state.py                                           *)
(***************************************************************************)

MaxStateCalls == 6

(* the arguments of edit_content *)
NewContents == {"Updated content", "Try to edit"}

(* a step of doc leaves every other program's state alone *)
OnlyState ==
    UNCHANGED <<actorVars, mementoVars, singletonVars, authVars,
                lockVars, threadPoolVars, commandVars, objectPoolVars>>

(* a review state that still lets the content be edited *)
EditsContentInReview(state) == state \in {"DraftState", "UnderReviewState"}

(* <State>.edit_content: only DraftState assigns document.content *)
EditsContent(state) == state = "DraftState"

(* <State>.submit_for_review: only DraftState assigns document.state *)
AfterSubmitForReview(state) ==
    IF state = "DraftState" THEN "UnderReviewState" ELSE state

(* <State>.approve: only UnderReviewState assigns document.state *)
AfterApprove(state) ==
    IF state = "UnderReviewState" THEN "PublishedState" ELSE state

(* <State>.archive: only PublishedState assigns document.state *)
AfterArchive(state) ==
    IF state = "PublishedState" THEN "ArchivedState" ELSE state

(* Document.edit_content *)
EditContent(new_content) ==
    /\ sdoc_clock < MaxStateCalls
    /\ sdoc_clock' = sdoc_clock + 1
    /\ sdoc_last_call' = "edit_content"
    /\ IF EditsContent(sdoc_state)
          THEN /\ sdoc_content' = new_content
               /\ sdoc_last_modified' = sdoc_clock'
          ELSE UNCHANGED <<sdoc_content, sdoc_last_modified>>
    /\ UNCHANGED sdoc_state
    /\ OnlyState

(* Document.submit_for_review *)
SubmitForReview ==
    /\ sdoc_clock < MaxStateCalls
    /\ sdoc_clock' = sdoc_clock + 1
    /\ sdoc_last_call' = "submit_for_review"
    /\ sdoc_state' = AfterSubmitForReview(sdoc_state)
    /\ UNCHANGED <<sdoc_content, sdoc_last_modified>>
    /\ OnlyState

(* Document.approve *)
Approve ==
    /\ sdoc_clock < MaxStateCalls
    /\ sdoc_clock' = sdoc_clock + 1
    /\ sdoc_last_call' = "approve"
    /\ sdoc_state' = AfterApprove(sdoc_state)
    /\ UNCHANGED <<sdoc_content, sdoc_last_modified>>
    /\ OnlyState

(* Document.archive *)
Archive ==
    /\ sdoc_clock < MaxStateCalls
    /\ sdoc_clock' = sdoc_clock + 1
    /\ sdoc_last_call' = "archive"
    /\ sdoc_state' = AfterArchive(sdoc_state)
    /\ UNCHANGED <<sdoc_content, sdoc_last_modified>>
    /\ OnlyState

NextState ==
    \/ \E new_content \in NewContents : EditContent(new_content)
    \/ SubmitForReview
    \/ Approve
    \/ Archive

SpecState == InitFull /\ [][NextState]_vars

(* C16: doc.state changes only from DraftState to UnderReviewState by      *)
(* submit_for_review, from UnderReviewState to PublishedState by approve   *)
(* and from PublishedState to ArchivedState by archive; any other call     *)
(* leaves state and content as they were; content changes only by          *)
(* edit_content in DraftState, which leaves the state; nothing changes in  *)
(* ArchivedState.                                                          *)
C16_DocumentLifecycle ==
    [][/\ sdoc_state' # sdoc_state =>
             /\ sdoc_content' = sdoc_content
             /\ \/ /\ sdoc_state = "DraftState"
                   /\ sdoc_state' = "UnderReviewState"
                   /\ sdoc_last_call' = "submit_for_review"
                \/ /\ sdoc_state = "UnderReviewState"
                   /\ sdoc_state' = "PublishedState"
                   /\ sdoc_last_call' = "approve"
                \/ /\ sdoc_state = "PublishedState"
                   /\ sdoc_state' = "ArchivedState"
                   /\ sdoc_last_call' = "archive"
       /\ sdoc_content' # sdoc_content =>
             /\ sdoc_state = "DraftState"
             /\ sdoc_last_call' = "edit_content"
       /\ (sdoc_state = "DraftState" /\ sdoc_last_call' \in {"approve", "archive"})
             => sdoc_state' = sdoc_state
       /\ (sdoc_state = "DraftState" /\ sdoc_last_call' = "submit_for_review")
             => sdoc_state' = "UnderReviewState"
       /\ (sdoc_state = "UnderReviewState" /\ sdoc_last_call' = "approve")
             => sdoc_state' = "PublishedState"
       /\ (sdoc_state = "PublishedState" /\ sdoc_last_call' = "archive")
             => sdoc_state' = "ArchivedState"
       /\ (sdoc_state = "UnderReviewState" /\ sdoc_last_call' # "approve")
             => UNCHANGED <<sdoc_state, sdoc_content>>
       /\ (sdoc_state = "PublishedState" /\ sdoc_last_call' # "archive")
             => UNCHANGED <<sdoc_state, sdoc_content>>
       /\ sdoc_state = "ArchivedState" => UNCHANGED <<sdoc_state, sdoc_content>>]_vars

(* C16 witness: an archived document whose content was edited while it     *)
(* was a draft, with a call made on it since it was archived.              *)
C16_Witness ==
    /\ sdoc_state = "ArchivedState"
    /\ sdoc_content = "Updated content"
    /\ sdoc_last_call = "edit_content"

(***************************************************************************)
(* src/Creational/Singleton/singleton.py                                   *)
(***************************************************************************)

MaxConstructions == 3

(* the arguments of update_setting and get_setting *)
SettingKeys == {"db_port", "debug_mode", "log_level"}
SettingValues == {PyFalse, "6543"}

(* the dict __init__ assigns to self.settings (5432 written as a string,   *)
(* so that every value of a setting is of one kind)                        *)
DefaultSettings ==
    [key \in {"db_host", "db_port", "debug_mode"} |->
        CASE key = "db_host" -> "localhost"
          [] key = "db_port" -> "5432"
          [] key = "debug_mode" -> PyTrue]

(* a step on ConfigurationManager leaves every other program's state alone *)
OnlySingleton ==
    UNCHANGED <<actorVars, mementoVars, stateVars, authVars,
                lockVars, threadPoolVars, commandVars, objectPoolVars>>

(* ConfigurationManager.__new__: the object the call returns *)
New(instance, objects) ==
    IF instance = NoInstance THEN Len(objects) + 1 ELSE instance

(* ConfigurationManager(): __new__, then __init__ on the object it         *)
(* returned, which assigns self.settings                                   *)
Construct ==
    /\ Len(cm_refs) < MaxConstructions
    /\ LET self == New(cm_instance, cm_objects)
       IN  /\ cm_instance' = self
           /\ cm_objects' = IF self > Len(cm_objects)
                               THEN Append(cm_objects, DefaultSettings)
                               ELSE [cm_objects EXCEPT ![self] = DefaultSettings]
           /\ cm_refs' = Append(cm_refs, self)
    /\ UNCHANGED cm_updated
    /\ OnlySingleton

(* ConfigurationManager.update_setting, through the i-th reference *)
UpdateSetting(i, key, value) ==
    /\ i \in 1..Len(cm_refs)
    /\ cm_objects' = [cm_objects EXCEPT ![cm_refs[i]] = DictSet(@, key, value)]
    /\ cm_updated' = DictSet(cm_updated, key, value)
    /\ UNCHANGED <<cm_instance, cm_refs>>
    /\ OnlySingleton

(* ConfigurationManager.get_setting, through the i-th reference *)
GetSetting(i, key) ==
    LET settings == cm_objects[cm_refs[i]]
    IN  IF key \in DOMAIN settings THEN settings[key] ELSE None

NextSingleton ==
    \/ Construct
    \/ \E i \in 1..MaxConstructions, key \in SettingKeys, value \in SettingValues :
          UpdateSetting(i, key, value)

SpecSingleton == InitFull /\ [][NextSingleton]_vars

(* C17: every ConfigurationManager() call returns the same object, and     *)
(* get_setting(key) through any of the references, one made after the      *)
(* update included, returns the value of the latest update_setting(key).   *)
C17_SharedSettings ==
    /\ \A i, j \in 1..Len(cm_refs) : cm_refs[i] = cm_refs[j]
    /\ \A i \in 1..Len(cm_refs) :
          \A key \in DOMAIN cm_updated : GetSetting(i, key) = cm_updated[key]

(***************************************************************************)
(* src/Security/AuthenticationProxy/authentication_proxy.py                *)
(***************************************************************************)

MaxAuthCalls == 4

(* the arguments of login and get_balance: the registered ones and one     *)
(* that is not registered                                                  *)
Usernames == {"alice", "bob", "mallory"}
Passwords == {"pass123", "pass456", "wrong"}
AccountIds == {"ACC001", "ACC002", "ACC999"}

(* RealBankAccountService._accounts (balances 1000.0 and 2500.0) *)
Accounts ==
    [account_id \in {"ACC001", "ACC002"} |->
        IF account_id = "ACC001"
            THEN [balance |-> 1000, owner_username |-> "alice"]
            ELSE [balance |-> 2500, owner_username |-> "bob"]]

(* AuthenticatedBankService._users, username to password *)
Users ==
    [username \in {"alice", "bob"} |->
        IF username = "alice" THEN "pass123" ELSE "pass456"]

(* how a call ends: with a value or with an exception *)
Return(value) == [kind |-> "return", value |-> value]
Raise(exception) == [kind |-> exception]

AuthenticationError == "AuthenticationError"
AuthorizationError == "AuthorizationError"

(* a step on the bank service leaves every other program's state alone *)
OnlyAuth ==
    UNCHANGED <<actorVars, mementoVars, stateVars, singletonVars,
                lockVars, threadPoolVars, commandVars, objectPoolVars>>

(* RealBankAccountService.get_balance *)
RealGetBalance(account_id) ==
    IF account_id \in DOMAIN Accounts
        THEN Return(Accounts[account_id].balance)
        ELSE Raise("ValueError")

(* RealBankAccountService.get_account_owner *)
GetAccountOwner(account_id) ==
    IF account_id \in DOMAIN Accounts
        THEN Accounts[account_id].owner_username
        ELSE None

(* get_balance without the comparison of the owner with the session's user *)
GetBalanceNoOwnerCheck(user, account_id) ==
    IF user = None
        THEN Raise(AuthenticationError)
        ELSE RealGetBalance(account_id)

(* how AuthenticatedBankService.get_balance ends when user is logged in *)
GetBalanceOutcome(user, account_id) ==
    IF user = None
        THEN Raise(AuthenticationError)
        ELSE IF GetAccountOwner(account_id) # user
            THEN Raise(AuthorizationError)
            ELSE RealGetBalance(account_id)

(* how AuthenticatedBankService.login ends *)
LoginOutcome(username, password) ==
    IF username \in DOMAIN Users /\ Users[username] = password
        THEN Return(None)
        ELSE Raise(AuthenticationError)

(* the record auth_log keeps of a call: user is _logged_in_user when the   *)
(* call was made                                                           *)
Call(op, arg, outcome) ==
    [op |-> op, arg |-> arg, user |-> logged_in_user, outcome |-> outcome]

(* AuthenticatedBankService.login *)
Login(username, password) ==
    /\ Len(auth_log) < MaxAuthCalls
    /\ LET outcome == LoginOutcome(username, password)
       IN  /\ logged_in_user' = IF outcome.kind = "return"
                                    THEN username
                                    ELSE logged_in_user
           /\ auth_log' = Append(auth_log, Call("login", <<username, password>>, outcome))
    /\ OnlyAuth

(* AuthenticatedBankService.logout *)
Logout ==
    /\ Len(auth_log) < MaxAuthCalls
    /\ logged_in_user' = None
    /\ auth_log' = Append(auth_log, Call("logout", <<>>, Return(None)))
    /\ OnlyAuth

(* AuthenticatedBankService.get_balance *)
GetBalance(account_id) ==
    /\ Len(auth_log) < MaxAuthCalls
    /\ auth_log' = Append(auth_log,
            Call("get_balance", account_id, GetBalanceOutcome(logged_in_user, account_id)))
    /\ UNCHANGED logged_in_user
    /\ OnlyAuth

NextAuth ==
    \/ \E username \in Usernames, password \in Passwords : Login(username, password)
    \/ Logout
    \/ \E account_id \in AccountIds : GetBalance(account_id)

SpecAuth == InitFull /\ [][NextAuth]_vars

(* who is logged in after the first n calls, told from the calls alone:    *)
(* the username of the last login that returned, unless a logout followed  *)
RECURSIVE CurrentUser(_)
CurrentUser(n) ==
    IF n = 0 THEN None
    ELSE LET call == auth_log[n]
         IN  IF call.op = "login" /\ call.outcome.kind = "return" THEN call.arg[1]
             ELSE IF call.op = "logout" THEN None
             ELSE CurrentUser(n - 1)

BalanceCalls == {i \in 1..Len(auth_log) : auth_log[i].op = "get_balance"}

(* C18: over any sequence of login, logout and get_balance calls,          *)
(* get_balance returns a balance only when a user is logged in at the      *)
(* call and owns the requested account, and then that account's balance;   *)
(* with nobody logged in it raises AuthenticationError; with a user        *)
(* logged in and the account another user's or not existing it raises      *)
(* AuthorizationError.                                                     *)
C18_BalanceOnlyToOwner ==
    /\ logged_in_user = CurrentUser(Len(auth_log))
    /\ \A i \in BalanceCalls :
          LET call == auth_log[i]
              user == CurrentUser(i - 1)
              owner == GetAccountOwner(call.arg)
          IN  /\ call.outcome.kind = "return" =>
                    /\ user # None
                    /\ owner = user
                    /\ call.outcome.value = Accounts[call.arg].balance
              /\ user = None => call.outcome.kind = AuthenticationError
              /\ user # None /\ owner # user => call.outcome.kind = AuthorizationError

(* after a login, a failed login leaves the session as it was: the owner   *)
(* is given the balance, and is refused an account that does not exist     *)
C18_Witness ==
    \E i, j, k \in 1..Len(auth_log) :
        /\ i < j /\ j < k
        /\ auth_log[i].op = "login"
        /\ auth_log[i].user # None
        /\ auth_log[i].outcome.kind = AuthenticationError
        /\ auth_log[j].op = "get_balance"
        /\ auth_log[j].outcome.kind = "return"
        /\ auth_log[k].op = "get_balance"
        /\ auth_log[k].arg \notin DOMAIN Accounts
        /\ auth_log[k].outcome.kind = AuthorizationError

(***************************************************************************)
(* src/Concurrency/LockMonitor/lock_monitor.py                             *)
(***************************************************************************)

MaxCustomers == 3

(* the arguments of BankAccount and of withdraw: none of them negative;    *)
(* 100, 70 and 80 are the example's                                        *)
InitialBalances == {0, 100}
Amounts == {0, 70, 80}

(* a step on the account leaves every other program's state alone *)
OnlyLock ==
    UNCHANGED <<actorVars, mementoVars, stateVars, singletonVars, authVars,
                threadPoolVars, commandVars, objectPoolVars>>

(* account = BankAccount(initial_balance) *)
NewAccount(initial_balance) ==
    /\ ~account_open
    /\ account_open' = TRUE
    /\ account_balance' = initial_balance
    /\ account_initial' = initial_balance
    /\ account_lock' = Unlocked
    /\ UNCHANGED customers
    /\ OnlyLock

(* threading.Thread(target=customer_withdraw, args=(account, amount)) and  *)
(* its start(): the new thread is about to enter withdraw                  *)
StartCustomer(amount) ==
    /\ account_open
    /\ Len(customers) < MaxCustomers
    /\ customers' = Append(customers,
            [amount |-> amount, pc |-> "start", tmp |-> 0, seen |-> 0,
             after |-> 0, granted |-> FALSE])
    /\ UNCHANGED <<account_open, account_balance, account_lock, account_initial>>
    /\ OnlyLock

(* a withdraw that does not take the lock *)
NoLock(lock) == TRUE

(* threading.Lock.acquire returns only when nobody holds the lock *)
CanAcquire(lock) == lock = Unlocked

(* with self.lock: on entry *)
Acquire(t) ==
    /\ t \in 1..Len(customers)
    /\ customers[t].pc = "start"
    /\ CanAcquire(account_lock)
    /\ account_lock' = t
    /\ customers' = [customers EXCEPT ![t].pc = "test"]
    /\ UNCHANGED <<account_open, account_balance, account_initial>>
    /\ OnlyLock

(* a test that refuses to empty the account *)
SufficientStrict(amount, balance) == amount < balance

(* if amount <= self.balance *)
Sufficient(amount, balance) == amount <= balance

(* the test, and the print of the branch taken *)
Test(t) ==
    /\ t \in 1..Len(customers)
    /\ customers[t].pc = "test"
    /\ customers' = [customers EXCEPT
            ![t].seen = account_balance,
            ![t].pc = IF Sufficient(customers[t].amount, account_balance)
                          THEN "sleep" ELSE "exit"]
    /\ UNCHANGED <<account_open, account_balance, account_lock, account_initial>>
    /\ OnlyLock

(* time.sleep(1) returns; self.balance -= amount loads self.balance *)
Load(t) ==
    /\ t \in 1..Len(customers)
    /\ customers[t].pc = "sleep"
    /\ customers' = [customers EXCEPT ![t].tmp = account_balance, ![t].pc = "store"]
    /\ UNCHANGED <<account_open, account_balance, account_lock, account_initial>>
    /\ OnlyLock

(* self.balance -= amount stores the difference; the print *)
Store(t) ==
    /\ t \in 1..Len(customers)
    /\ customers[t].pc = "store"
    /\ account_balance' = customers[t].tmp - customers[t].amount
    /\ customers' = [customers EXCEPT ![t].granted = TRUE, ![t].pc = "exit"]
    /\ UNCHANGED <<account_open, account_lock, account_initial>>
    /\ OnlyLock

(* with self.lock: on exit; withdraw and the thread end *)
Release(t) ==
    /\ t \in 1..Len(customers)
    /\ customers[t].pc = "exit"
    /\ account_lock' = Unlocked
    /\ customers' = [customers EXCEPT ![t].after = account_balance, ![t].pc = "done"]
    /\ UNCHANGED <<account_open, account_balance, account_initial>>
    /\ OnlyLock

Withdraw(t) ==
    \/ Acquire(t)
    \/ Test(t)
    \/ Load(t)
    \/ Store(t)
    \/ Release(t)

NextLock ==
    \/ \E initial_balance \in InitialBalances : NewAccount(initial_balance)
    \/ \E amount \in Amounts : StartCustomer(amount)
    \/ \E t \in 1..MaxCustomers : Withdraw(t)

SpecLock == InitFull /\ [][NextLock]_vars

(* the threads between the acquisition of the lock and its release *)
InWithdraw == {t \in 1..Len(customers) : customers[t].pc \in {"test", "sleep", "store", "exit"}}

(* C23: with an initial balance and amounts that are not negative, the     *)
(* balance is never negative, whatever the number of threads and their     *)
(* interleaving: at most one thread is between the test and the debit,     *)
(* it is the holder of the lock, and the test it passed still holds when   *)
(* it debits.                                                              *)
C23_BalanceNeverNegative ==
    /\ account_balance >= 0
    /\ Cardinality(InWithdraw) <= 1
    /\ \A t \in InWithdraw : account_lock = t
    /\ \A t \in 1..Len(customers) :
          customers[t].pc \in {"sleep", "store"} =>
              /\ customers[t].amount <= account_balance
              /\ customers[t].seen = account_balance

(* C23 witness: a thread has passed the test and is about to debit while   *)
(* another waits for the lock with an amount the balance covers now and    *)
(* will not cover after the debit.                                         *)
C23_Witness ==
    \E t, u \in 1..Len(customers) :
        /\ customers[t].pc = "store"
        /\ customers[u].pc = "start"
        /\ customers[u].amount <= account_balance
        /\ customers[u].amount > account_balance - customers[t].amount

RECURSIVE GrantedSum(_)
GrantedSum(n) ==
    IF n = 0 THEN 0
    ELSE GrantedSum(n - 1) + (IF customers[n].granted THEN customers[n].amount ELSE 0)

AllDone == \A t \in 1..Len(customers) : customers[t].pc = "done"

(* C24: a withdrawal is granted iff its amount is at most the balance it   *)
(* finds while holding the lock; when it releases the lock the balance is  *)
(* the one it found less its amount if granted, and the one it found if    *)
(* denied; when every thread has finished, the balance is the initial one  *)
(* less the sum of the granted amounts; and for the example (100, then 70  *)
(* and 80) exactly one is granted and the balance ends at 30 or 20.        *)
C24_NoLostUpdate ==
    /\ \A t \in 1..Len(customers) :
          /\ customers[t].pc \in {"exit", "done"} =>
                (customers[t].granted <=> customers[t].amount <= customers[t].seen)
          /\ customers[t].pc = "done" =>
                customers[t].after = IF customers[t].granted
                                         THEN customers[t].seen - customers[t].amount
                                         ELSE customers[t].seen
    /\ AllDone => account_balance = account_initial - GrantedSum(Len(customers))
    /\ (/\ AllDone
        /\ account_initial = 100
        /\ [t \in 1..Len(customers) |-> customers[t].amount] = <<70, 80>>)
          => /\ customers[1].granted # customers[2].granted
             /\ account_balance \in {30, 20}

(* C24 witness: the example has run, the second thread took the lock first *)
C24_Witness ==
    /\ AllDone
    /\ account_initial = 100
    /\ [t \in 1..Len(customers) |-> customers[t].amount] = <<70, 80>>
    /\ customers[2].granted /\ ~customers[1].granted
    /\ account_balance = 20

(***************************************************************************)
(* src/Concurrency/ThreadPool/thread_pool.py                               *)
(***************************************************************************)

MaxChefs == 2
MaxOrders == 3

(* a step on the restaurant leaves every other program's state alone *)
OnlyThreadPool ==
    UNCHANGED <<actorVars, mementoVars, stateVars, singletonVars, authVars,
                lockVars, commandVars, objectPoolVars>>

(* restaurant = RestaurantThreadPool(num_chefs=n): the executor starts     *)
(* without threads                                                         *)
NewRestaurant(n) ==
    /\ main_pc = "new"
    /\ num_chefs' = n
    /\ orders_prepared' = 0
    /\ restaurant_lock' = Unlocked
    /\ main_pc' = "idle"
    /\ UNCHANGED <<work_queue, chefs, orders, main_idx, futures, prepared,
                   prepared_before>>
    /\ OnlyThreadPool

(* restaurant.process_orders(orders) is called with a list of k orders;    *)
(* MaxOrders caps the orders given over all the calls                      *)
ProcessOrders(k) ==
    /\ main_pc \in {"idle", "returned"}
    /\ orders_prepared + k <= MaxOrders
    /\ orders' = k
    /\ main_idx' = 1
    /\ futures' = <<>>
    /\ prepared' = <<>>
    /\ prepared_before' = orders_prepared
    /\ main_pc' = IF k = 0 THEN "wait" ELSE "submit"
    /\ UNCHANGED <<num_chefs, orders_prepared, restaurant_lock, work_queue, chefs>>
    /\ OnlyThreadPool

IdleChef == [pc |-> "idle", order |-> 0, tmp |-> 0]

(* ThreadPoolExecutor starts a new thread on a submit only while it has    *)
(* fewer than max_workers threads                                          *)
MaySpawn(threads, max_workers) == Len(threads) < max_workers

(* self.executor.submit(self.prepare_dish, order) for the next order of    *)
(* the list: the work item is queued and, when no thread is idle and       *)
(* fewer than max_workers exist, a thread is started (with an idle thread  *)
(* the executor may or may not start one).                                 *)
Submit ==
    /\ main_pc = "submit"
    /\ work_queue' = Append(work_queue, main_idx)
    /\ futures' = Append(futures, FALSE)
    /\ prepared' = Append(prepared, 0)
    /\ \E spawn \in BOOLEAN :
          /\ spawn => MaySpawn(chefs, num_chefs)
          /\ ~spawn => (\/ ~MaySpawn(chefs, num_chefs)
                        \/ \E c \in 1..Len(chefs) : chefs[c].pc = "idle")
          /\ chefs' = IF spawn THEN Append(chefs, IdleChef) ELSE chefs
    /\ IF main_idx = orders
          THEN main_pc' = "wait" /\ main_idx' = 1
          ELSE main_pc' = "submit" /\ main_idx' = main_idx + 1
    /\ UNCHANGED <<num_chefs, orders_prepared, restaurant_lock, orders, prepared_before>>
    /\ OnlyThreadPool

(* print(future.result()) for the next future: returns once it is done *)
Result ==
    /\ main_pc = "wait"
    /\ main_idx <= orders
    /\ futures[main_idx]
    /\ main_idx' = main_idx + 1
    /\ UNCHANGED <<num_chefs, orders_prepared, restaurant_lock, work_queue, chefs,
                   orders, main_pc, futures, prepared, prepared_before>>
    /\ OnlyThreadPool

(* the for loop over futures is exhausted: process_orders returns *)
ProcessOrdersReturn ==
    /\ main_pc = "wait"
    /\ main_idx > orders
    /\ main_pc' = "returned"
    /\ UNCHANGED <<num_chefs, orders_prepared, restaurant_lock, work_queue, chefs,
                   orders, main_idx, futures, prepared, prepared_before>>
    /\ OnlyThreadPool

(* a thread of the executor takes the next work item and enters            *)
(* prepare_dish: the print, then time.sleep(order.preparation_time)        *)
TakeOrder(c) ==
    /\ c \in 1..Len(chefs)
    /\ chefs[c].pc = "idle"
    /\ work_queue # <<>>
    /\ chefs' = [chefs EXCEPT ![c].pc = "cook", ![c].order = Head(work_queue)]
    /\ work_queue' = Tail(work_queue)
    /\ UNCHANGED <<num_chefs, orders_prepared, restaurant_lock, orders, main_pc,
                   main_idx, futures, prepared, prepared_before>>
    /\ OnlyThreadPool

(* time.sleep returns: the dish is prepared *)
Cook(c) ==
    /\ c \in 1..Len(chefs)
    /\ chefs[c].pc = "cook"
    /\ prepared' = [prepared EXCEPT ![chefs[c].order] = @ + 1]
    /\ chefs' = [chefs EXCEPT ![c].pc = "lock"]
    /\ UNCHANGED <<num_chefs, orders_prepared, restaurant_lock, work_queue, orders,
                   main_pc, main_idx, futures, prepared_before>>
    /\ OnlyThreadPool

(* a count that is updated without the lock *)
ChefNoLock(lock) == TRUE

(* threading.Lock.acquire returns only when nobody holds the lock *)
ChefCanAcquire(lock) == lock = Unlocked

(* with self.lock: on entry *)
ChefAcquire(c) ==
    /\ c \in 1..Len(chefs)
    /\ chefs[c].pc = "lock"
    /\ ChefCanAcquire(restaurant_lock)
    /\ restaurant_lock' = c
    /\ chefs' = [chefs EXCEPT ![c].pc = "load"]
    /\ UNCHANGED <<num_chefs, orders_prepared, work_queue, orders, main_pc,
                   main_idx, futures, prepared, prepared_before>>
    /\ OnlyThreadPool

(* self.orders_prepared += 1 loads self.orders_prepared *)
CountLoad(c) ==
    /\ c \in 1..Len(chefs)
    /\ chefs[c].pc = "load"
    /\ chefs' = [chefs EXCEPT ![c].tmp = orders_prepared, ![c].pc = "store"]
    /\ UNCHANGED <<num_chefs, orders_prepared, restaurant_lock, work_queue, orders,
                   main_pc, main_idx, futures, prepared, prepared_before>>
    /\ OnlyThreadPool

(* self.orders_prepared += 1 stores the sum *)
CountStore(c) ==
    /\ c \in 1..Len(chefs)
    /\ chefs[c].pc = "store"
    /\ orders_prepared' = chefs[c].tmp + 1
    /\ chefs' = [chefs EXCEPT ![c].pc = "unlock"]
    /\ UNCHANGED <<num_chefs, restaurant_lock, work_queue, orders, main_pc,
                   main_idx, futures, prepared, prepared_before>>
    /\ OnlyThreadPool

(* with self.lock: on exit; prepare_dish returns, the future of the work   *)
(* item is done and the thread goes back to the queue                      *)
ChefRelease(c) ==
    /\ c \in 1..Len(chefs)
    /\ chefs[c].pc = "unlock"
    /\ restaurant_lock' = Unlocked
    /\ futures' = [futures EXCEPT ![chefs[c].order] = TRUE]
    /\ chefs' = [chefs EXCEPT ![c] = IdleChef]
    /\ UNCHANGED <<num_chefs, orders_prepared, work_queue, orders, main_pc,
                   main_idx, prepared, prepared_before>>
    /\ OnlyThreadPool

Chef(c) ==
    \/ TakeOrder(c)
    \/ Cook(c)
    \/ ChefAcquire(c)
    \/ CountLoad(c)
    \/ CountStore(c)
    \/ ChefRelease(c)

NextThreadPool ==
    \/ \E n \in 1..MaxChefs : NewRestaurant(n)
    \/ \E k \in 0..MaxOrders : ProcessOrders(k)
    \/ Submit
    \/ Result
    \/ ProcessOrdersReturn
    \/ \E c \in 1..MaxChefs : Chef(c)

SpecThreadPool == InitFull /\ [][NextThreadPool]_vars

(* the chefs that are inside prepare_dish *)
Preparing == {c \in 1..Len(chefs) : chefs[c].pc # "idle"}

(* C25: when process_orders returns, every order of the list has been      *)
(* prepared exactly once and orders_prepared is its value at the call plus *)
(* the number of orders; no order is ever prepared twice; and at no time   *)
(* are more than num_chefs orders in preparation.                          *)
C25_EveryOrderOnce ==
    /\ main_pc = "returned" =>
          /\ Len(prepared) = orders
          /\ \A i \in 1..orders : prepared[i] = 1 /\ futures[i]
          /\ orders_prepared = prepared_before + orders
          /\ work_queue = <<>>
    /\ \A i \in 1..Len(prepared) : prepared[i] <= 1
    /\ Cardinality(Preparing) <= num_chefs

(* C25 witness: process_orders has returned from a call with more orders   *)
(* than chefs, on a restaurant that had prepared an order before.          *)
C25_Witness ==
    /\ main_pc = "returned"
    /\ num_chefs = 1
    /\ orders = 2
    /\ prepared_before = 1
    /\ orders_prepared = 3

(***************************************************************************)
(* src/Behavioral/Command/command.py                                       *)
(***************************************************************************)

MaxCommands == 3

(* the arguments of WriteCommand and DeleteCommand: the empty content,     *)
(* num_chars = 0 and a num_chars greater than the text among them          *)
WriteContents == {<<>>, <<"a">>, <<"b", "c">>}
NumChars == {0, 1, 2, 7}

(* a step on the editor leaves every other program's state alone *)
OnlyCommand ==
    UNCHANGED <<actorVars, mementoVars, stateVars, singletonVars, authVars,
                lockVars, threadPoolVars, objectPoolVars>>

(* how Python places a slice bound i in a sequence of length n: a negative *)
(* bound counts from the end; the result is kept within 0..n               *)
SliceBound(i, n) ==
    IF i < 0
        THEN (IF i + n < 0 THEN 0 ELSE i + n)
        ELSE (IF i > n THEN n ELSE i)

(* text[:stop] *)
SliceTo(text, stop) == SubSeq(text, 1, SliceBound(stop, Len(text)))

(* text[start:] *)
SliceFrom(text, start) == SubSeq(text, SliceBound(start, Len(text)) + 1, Len(text))

(* TextEditor.write: self.text += content *)
EditorWrite(text, content) == text \o content

(* TextEditor.delete: self.text = self.text[:-num_chars] *)
EditorDelete(text, num_chars) == SliceTo(text, 0 - num_chars)

(* WriteCommand(editor, content) and DeleteCommand(editor, num_chars) *)
WriteCommand(content) ==
    [kind |-> "WriteCommand", content |-> content, num_chars |-> 0,
     deleted_text |-> <<>>]
DeleteCommand(num_chars) ==
    [kind |-> "DeleteCommand", content |-> <<>>, num_chars |-> num_chars,
     deleted_text |-> <<>>]

(* command.execute(): the command after it (DeleteCommand keeps the text   *)
(* it deleted) and the editor's text after it                              *)
Execute(command, text) ==
    IF command.kind = "WriteCommand"
        THEN [command |-> command, text |-> EditorWrite(text, command.content)]
        ELSE [command |-> [command EXCEPT
                              !.deleted_text = SliceFrom(text, 0 - command.num_chars)],
              text |-> EditorDelete(text, command.num_chars)]

(* command.undo(): the editor's text after it *)
CommandUndo(command, text) ==
    IF command.kind = "WriteCommand"
        THEN EditorDelete(text, Len(command.content))
        ELSE EditorWrite(text, command.deleted_text)

(* EditorInvoker.execute_command *)
ExecuteCommand(command) ==
    /\ Len(invoker_history) < MaxCommands
    /\ LET done == Execute(command, editor_text)
       IN  /\ editor_text' = done.text
           /\ invoker_history' = Append(invoker_history, done.command)
    /\ text_before' = Append(text_before, editor_text)
    /\ text_start' = IF invoker_history = <<>> THEN editor_text ELSE text_start
    /\ OnlyCommand

(* EditorInvoker.undo *)
InvokerUndo ==
    /\ IF invoker_history # <<>>
          THEN /\ editor_text' =
                      CommandUndo(invoker_history[Len(invoker_history)], editor_text)
               /\ invoker_history' = SubSeq(invoker_history, 1, Len(invoker_history) - 1)
               /\ text_before' = SubSeq(text_before, 1, Len(text_before) - 1)
          ELSE UNCHANGED <<editor_text, invoker_history, text_before>>
    /\ UNCHANGED text_start
    /\ OnlyCommand

NextCommand ==
    \/ \E content \in WriteContents : ExecuteCommand(WriteCommand(content))
    \/ \E num_chars \in NumChars : ExecuteCommand(DeleteCommand(num_chars))
    \/ InvokerUndo

SpecCommand == InitFull /\ [][NextCommand]_vars

(* C26: for every text and every WriteCommand or DeleteCommand, the empty  *)
(* content, num_chars = 0 and num_chars greater than the text included,    *)
(* an undo puts the editor's text back to what it was before the command   *)
(* it undoes was executed; and when the undos have emptied the history the *)
(* text is the one the first of the commands found.                        *)
C26_UndoRestoresText ==
    [][Len(invoker_history') < Len(invoker_history) =>
          /\ editor_text' = text_before[Len(text_before)]
          /\ invoker_history' = <<>> => editor_text' = text_start]_vars

(***************************************************************************)
(* src/ObjectPool/object_pool.py                                           *)
(***************************************************************************)

MaxObjects == 5

(* the size given to ObjectPool; 3 is the example's *)
PoolSizes == {0, 1, 2, 3}

(* a step on the pool leaves every other program's state alone *)
OnlyObjectPool ==
    UNCHANGED <<actorVars, mementoVars, stateVars, singletonVars, authVars,
                lockVars, threadPoolVars, commandVars>>

(* queue.Queue.empty() *)
QueueEmpty(q) == Len(q) = 0

(* queue.Queue.full(): a queue made with maxsize <= 0 has no limit and is  *)
(* never full                                                              *)
QueueFull(q, maxsize) == 0 < maxsize /\ maxsize <= Len(q)

(* pool = ObjectPool(size): the queue, then size objects created and put;  *)
(* the objects are numbered in the order of their creation                 *)
NewPool(size) ==
    /\ ~pool_built
    /\ pool_built' = TRUE
    /\ pool_size' = size
    /\ pool_queue' = [i \in 1..size |-> i]
    /\ pool_created' = size
    /\ pool_held' = {}
    /\ pool_last' = [op |-> "ObjectPool", before |-> <<>>, result |-> 0]
    /\ OnlyObjectPool

(* ObjectPool.acquire *)
PoolAcquire ==
    /\ pool_built
    /\ IF QueueEmpty(pool_queue)
          THEN /\ pool_created < MaxObjects
               /\ pool_created' = pool_created + 1
               /\ pool_held' = pool_held \cup {pool_created + 1}
               /\ pool_last' = [op |-> "acquire", before |-> pool_queue,
                                result |-> pool_created + 1]
               /\ UNCHANGED pool_queue
          ELSE /\ pool_queue' = Tail(pool_queue)
               /\ pool_held' = pool_held \cup {Head(pool_queue)}
               /\ pool_last' = [op |-> "acquire", before |-> pool_queue,
                                result |-> Head(pool_queue)]
               /\ UNCHANGED pool_created
    /\ UNCHANGED <<pool_built, pool_size>>
    /\ OnlyObjectPool

(* ObjectPool.release, of an object that acquire has returned *)
PoolRelease(reusable) ==
    /\ pool_built
    /\ reusable \in pool_held
    /\ pool_queue' = IF QueueFull(pool_queue, pool_size)
                         THEN pool_queue
                         ELSE Append(pool_queue, reusable)
    /\ pool_held' = pool_held \ {reusable}
    /\ pool_last' = [op |-> "release", before |-> pool_queue, result |-> reusable]
    /\ UNCHANGED <<pool_built, pool_size, pool_created>>
    /\ OnlyObjectPool

NextObjectPool ==
    \/ \E size \in PoolSizes : NewPool(size)
    \/ PoolAcquire
    \/ \E reusable \in 1..MaxObjects : PoolRelease(reusable)

SpecObjectPool == InitFull /\ [][NextObjectPool]_vars

(* the objects in a queue *)
Pooled(q) == {q[i] : i \in 1..Len(q)}

(* C27: after any sequence of acquire and release calls the pool holds     *)
(* between 0 and size idle objects; an acquire on an empty pool returns an *)
(* object that was just created and leaves the pool empty; an acquire on a *)
(* pool that is not empty takes exactly one object out of it; and a        *)
(* release on a pool that holds size objects leaves the pool as it was.    *)
C27_PoolWithinSize ==
    /\ Len(pool_queue) <= pool_size
    /\ pool_last.op = "acquire" =>
          IF pool_last.before = <<>>
              THEN /\ pool_last.result = pool_created
                   /\ pool_queue = <<>>
              ELSE /\ Len(pool_queue) = Len(pool_last.before) - 1
                   /\ Pooled(pool_queue) = Pooled(pool_last.before) \ {pool_last.result}
    /\ (pool_last.op = "release" /\ Len(pool_last.before) = pool_size) =>
          pool_queue = pool_last.before

====
